---- MODULE Spec2Model ----
(***************************************************************************)
(* microwhirl: a controller (MicroWhirl) over a registry of named queues   *)
(* (MicroWhirlQueues) and a list of worker processes (WhirlProcess and     *)
(* its subclasses).  The multiprocessing runtime is taken as a primitive:  *)
(* a queue is a FIFO whose put/get are atomic, a process is alive from     *)
(* start() until its run() has returned or raised.                         *)
(***************************************************************************)
EXTENDS Integers, Sequences, FiniteSets, TLC

VARIABLES
    qList,      \* MicroWhirlQueues.qList: name -> queue
    wList,      \* MicroWhirl.wList: sequence of (process, tag, id)
    maxProcId,  \* MicroWhirl.maxProcId
    procs,      \* the process objects, procs[wList[k].p]
    ret,        \* what the controller's last call returned or raised
    cpc,        \* the controller's position in its script ("api": any call)
    cv          \* the controller script's local variables

vars == <<qList, wList, maxProcId, procs, ret, cpc, cv>>

-----------------------------------------------------------------------------
(* Bounds of the model *)

MaxWorkers == 2     \* addWorker calls explored by Spec
MaxItems == 2       \* items an unbounded queue holds in the model
MaxSignals == 1     \* messages a signal queue holds in the model
MaxSize == 1        \* largest qsize given to addQueue by Spec

(* Program constants *)

SOFTCLOSE == "softclose"
ProcGenCount == 5

QNames == {"testq", "q2"}
Values == {"test", "test_value"}
Tags == {"simple", "gen"}

-----------------------------------------------------------------------------
(* multiprocessing.Queue as used by the program: block=False everywhere *)

NewQueue(qsize) == [maxsize |-> qsize, items |-> <<>>, closed |-> FALSE]

QFull(q) == q.maxsize > 0 /\ Len(q.items) >= q.maxsize

-----------------------------------------------------------------------------
(* MicroWhirlQueues *)

\* model bound: an unbounded queue takes no more than MaxItems items
Room(ql, qname) ==
    (qname \in DOMAIN ql /\ ql[qname].maxsize <= 0)
        => Len(ql[qname].items) < MaxItems

\* faulty variant: no test of the name, a registered queue is replaced by a new one
addQueue_Replace(ql, qname, qsize) ==
    [n \in DOMAIN ql \cup {qname} |->
        IF n = qname THEN NewQueue(qsize) ELSE ql[n]]

addQueue(ql, qname, qsize) ==
    IF qname \in DOMAIN ql
    THEN ql
    ELSE [n \in DOMAIN ql \cup {qname} |->
            IF n = qname THEN NewQueue(qsize) ELSE ql[n]]

\* faulty variant: the closed queue is deleted from qList
closeQueue_Remove(ql, qname) ==
    [n \in DOMAIN ql \ {qname} |-> ql[n]]

closeQueue(ql, qname) ==
    IF qname \notin DOMAIN ql
    THEN ql
    ELSE [ql EXCEPT ![qname].closed = TRUE]

closeAllQueues(ql) == [n \in DOMAIN ql |-> [ql[n] EXCEPT !.closed = TRUE]]

\* faulty variant: the test of the name inverted, so a registered queue reports 0
queueSize_Inverted(ql, qname) ==
    IF qname \in DOMAIN ql THEN 0 ELSE Len(ql[qname].items)

queueSize(ql, qname) ==
    IF qname \notin DOMAIN ql THEN 0 ELSE Len(ql[qname].items)

\* faulty variant: Full is caught and dropped, the caller sees no QueueTimeout
put_SwallowFull(ql, qname, obj) ==
    IF qname \notin DOMAIN ql
    THEN [ql |-> ql, res |-> "QueueNotExists"]
    ELSE IF ql[qname].closed
    THEN [ql |-> ql, res |-> "ValueError"]
    ELSE IF QFull(ql[qname])
    THEN [ql |-> ql, res |-> "ok"]
    ELSE [ql |-> [ql EXCEPT ![qname].items = Append(@, obj)], res |-> "ok"]

\* faulty variant: a name that is not registered is registered by the put
put_Creating(ql, qname, obj) ==
    IF qname \notin DOMAIN ql
    THEN [ql |-> [n \in DOMAIN ql \cup {qname} |->
                    IF n = qname
                    THEN [NewQueue(0) EXCEPT !.items = <<obj>>]
                    ELSE ql[n]],
          res |-> "ok"]
    ELSE IF ql[qname].closed
    THEN [ql |-> ql, res |-> "ValueError"]
    ELSE IF QFull(ql[qname])
    THEN [ql |-> ql, res |-> "QueueTimeout"]
    ELSE [ql |-> [ql EXCEPT ![qname].items = Append(@, obj)], res |-> "ok"]

\* put returns the registry after the call and what the call raised ("ok": nothing)
put(ql, qname, obj) ==
    IF qname \notin DOMAIN ql
    THEN [ql |-> ql, res |-> "QueueNotExists"]
    ELSE IF ql[qname].closed
    THEN [ql |-> ql, res |-> "ValueError"]
    ELSE IF QFull(ql[qname])
    THEN [ql |-> ql, res |-> "QueueTimeout"]
    ELSE [ql |-> [ql EXCEPT ![qname].items = Append(@, obj)], res |-> "ok"]

\* faulty variant: Empty is caught and None returned, no QueueTimeout raised
get_EmptyNone(ql, qname) ==
    IF qname \notin DOMAIN ql
    THEN [ql |-> ql, res |-> "QueueNotExists", val |-> "None"]
    ELSE IF ql[qname].closed
    THEN [ql |-> ql, res |-> "ValueError", val |-> "None"]
    ELSE IF ql[qname].items = <<>>
    THEN [ql |-> ql, res |-> "ok", val |-> "None"]
    ELSE [ql |-> [ql EXCEPT ![qname].items = Tail(@)], res |-> "ok",
          val |-> Head(ql[qname].items)]

\* faulty variant: the newest item is returned instead of the oldest
get_Last(ql, qname) ==
    IF qname \notin DOMAIN ql
    THEN [ql |-> ql, res |-> "QueueNotExists", val |-> "None"]
    ELSE IF ql[qname].closed
    THEN [ql |-> ql, res |-> "ValueError", val |-> "None"]
    ELSE IF ql[qname].items = <<>>
    THEN [ql |-> ql, res |-> "QueueTimeout", val |-> "None"]
    ELSE [ql |-> [ql EXCEPT ![qname].items = SubSeq(@, 1, Len(@) - 1)], res |-> "ok",
          val |-> ql[qname].items[Len(ql[qname].items)]]

\* get returns the registry after the call, what it raised, and the value returned
get(ql, qname) ==
    IF qname \notin DOMAIN ql
    THEN [ql |-> ql, res |-> "QueueNotExists", val |-> "None"]
    ELSE IF ql[qname].closed
    THEN [ql |-> ql, res |-> "ValueError", val |-> "None"]
    ELSE IF ql[qname].items = <<>>
    THEN [ql |-> ql, res |-> "QueueTimeout", val |-> "None"]
    ELSE [ql |-> [ql EXCEPT ![qname].items = Tail(@)], res |-> "ok",
          val |-> Head(ql[qname].items)]

-----------------------------------------------------------------------------
(* WhirlProcess and its subclasses: the process objects *)

WhirlProcess(needInput, needOutput) ==
    [kind |-> "WhirlProcess", worker |-> "None",
     needInput |-> needInput, needOutput |-> needOutput,
     qInput |-> <<>>, qOutput |-> <<>>,
     status |-> "initial", pc |-> "run",
     softclose |-> FALSE, keepwork |-> TRUE,
     rng |-> <<>>, v |-> 0, saveset |-> <<>>, exc |-> "None"]

SimpleWorkerProcess(worker_func) ==
    [WhirlProcess(TRUE, FALSE) EXCEPT
        !.kind = "SimpleWorkerProcess", !.worker = worker_func, !.softclose = FALSE]

ProcGen == [WhirlProcess(TRUE, TRUE) EXCEPT
               !.kind = "ProcGen", !.rng = [k \in 1..ProcGenCount |-> k - 1]]

Gen(rng) == [WhirlProcess(TRUE, TRUE) EXCEPT !.kind = "Gen", !.rng = rng]

Saver == [WhirlProcess(TRUE, TRUE) EXCEPT
             !.kind = "Saver", !.saveset = <<>>, !.keepwork = TRUE]

\* Process.is_alive(): from start() until run() has returned or raised
is_alive(p) == p.status = "started"

\* run() returned: the process ends
Exit(p) == [p EXCEPT !.status = "stopped", !.pc = "done"]

\* an exception nothing in run() catches: the process ends with it
Raised(p, exc) == [p EXCEPT !.status = "stopped", !.pc = "done", !.exc = exc]

\* faulty variant: the signal is taken and the flag is not set
processSignals_NoFlag(p) ==
    IF p.qInput = <<>>
    THEN p
    ELSE [p EXCEPT !.qInput = Tail(@)]

\* faulty variant: no test of the signal, any message sets the flag
processSignals_AnyMessage(p) ==
    IF p.qInput = <<>>
    THEN p
    ELSE [p EXCEPT !.qInput = Tail(@), !.softclose = TRUE]

\* SimpleWorkerProcess.processSignals / SoftcloseProcess.processSignals
processSignals(p) ==
    IF p.qInput = <<>>
    THEN p
    ELSE [p EXCEPT !.qInput = Tail(@),
                   !.softclose = IF Head(p.qInput) = SOFTCLOSE THEN TRUE ELSE @]

\* faulty variant: the signal is taken and keepwork stays True
SaverProcessSignals_NoFlag(p) ==
    IF p.qInput = <<>>
    THEN p
    ELSE [p EXCEPT !.qInput = Tail(@)]

\* Saver.processSignals
SaverProcessSignals(p) ==
    IF p.qInput = <<>>
    THEN p
    ELSE [p EXCEPT !.qInput = Tail(@),
                   !.keepwork = IF Head(p.qInput) = SOFTCLOSE THEN FALSE ELSE @]

Running(i) == i \in 1..Len(procs) /\ is_alive(procs[i])

\* WhirlProcess.run: pass
WhirlRun(i) ==
    /\ Running(i)
    /\ procs[i].kind = "WhirlProcess"
    /\ procs' = [procs EXCEPT ![i] = Exit(@)]
    /\ UNCHANGED <<qList, wList, maxProcId, ret, cpc, cv>>

\* faulty variant: the signals are polled before the loop test, so a sentinel
\* that is already there ends run() before the worker function is called
SimpleRun_PollFirst(i) ==
    /\ Running(i)
    /\ procs[i].kind = "SimpleWorkerProcess"
    /\ procs[i].pc = "run"
    /\ procs' = [procs EXCEPT ![i] =
                    IF processSignals(procs[i]).softclose
                    THEN Exit(processSignals(procs[i]))
                    ELSE [processSignals(@) EXCEPT !.pc = "worker"]]
    /\ UNCHANGED <<qList, wList, maxProcId, ret, cpc, cv>>

\* SimpleWorkerProcess.run: the loop test and processSignals()
SimpleRun(i) ==
    /\ Running(i)
    /\ procs[i].kind = "SimpleWorkerProcess"
    /\ procs[i].pc = "run"
    /\ procs' = [procs EXCEPT ![i] =
                    IF procs[i].softclose
                    THEN Exit(@)
                    ELSE [processSignals(@) EXCEPT !.pc = "worker"]]
    /\ UNCHANGED <<qList, wList, maxProcId, ret, cpc, cv>>

\* SimpleWorkerProcess.run: self.worker(self.whirl), with test_worker1
TestWorker1(i) ==
    /\ Running(i)
    /\ procs[i].kind = "SimpleWorkerProcess"
    /\ procs[i].worker = "test_worker1"
    /\ procs[i].pc = "worker"
    /\ Room(qList, "testq")
    /\ LET r == put(qList, "testq", "test_value") IN
         /\ qList' = r.ql
         /\ procs' = [procs EXCEPT ![i] =
                         IF r.res = "ok" THEN [@ EXCEPT !.pc = "run"] ELSE Raised(@, r.res)]
    /\ UNCHANGED <<wList, maxProcId, ret, cpc, cv>>

\* complex_worker: v = whirl.get("procq"); QueueTimeout returns
ComplexWorkerGet(i) ==
    /\ Running(i)
    /\ procs[i].kind = "SimpleWorkerProcess"
    /\ procs[i].worker = "complex_worker"
    /\ procs[i].pc = "worker"
    /\ LET r == get(qList, "procq") IN
         /\ qList' = r.ql
         /\ procs' = [procs EXCEPT ![i] =
                         IF r.res = "ok" THEN [@ EXCEPT !.pc = "put", !.v = r.val]
                         ELSE IF r.res = "QueueTimeout" THEN [@ EXCEPT !.pc = "run"]
                         ELSE Raised(@, r.res)]
    /\ UNCHANGED <<wList, maxProcId, ret, cpc, cv>>

\* complex_worker: whirl.put("saveq", v*v)
ComplexWorkerPut(i) ==
    /\ Running(i)
    /\ procs[i].kind = "SimpleWorkerProcess"
    /\ procs[i].worker = "complex_worker"
    /\ procs[i].pc = "put"
    /\ LET r == put(qList, "saveq", procs[i].v * procs[i].v) IN
         /\ qList' = r.ql
         /\ procs' = [procs EXCEPT ![i] =
                         IF r.res = "ok" THEN [@ EXCEPT !.pc = "run", !.v = 0]
                         ELSE Raised(@, r.res)]
    /\ UNCHANGED <<wList, maxProcId, ret, cpc, cv>>

\* ProcGen.run: for i in range(5): self.whirl.put("testq", "test_value")
ProcGenRun(i) ==
    /\ Running(i)
    /\ procs[i].kind = "ProcGen"
    /\ IF procs[i].rng = <<>>
       THEN /\ procs' = [procs EXCEPT ![i] = Exit(@)]
            /\ UNCHANGED qList
       ELSE LET r == put(qList, "testq", "test_value") IN
            /\ qList' = r.ql
            /\ procs' = [procs EXCEPT ![i] =
                            IF r.res = "ok" THEN [@ EXCEPT !.rng = Tail(@)]
                            ELSE Raised(@, r.res)]
    /\ UNCHANGED <<wList, maxProcId, ret, cpc, cv>>

\* Gen.run: for i in self.rng: self.whirl.put("procq", i)
GenRun(i) ==
    /\ Running(i)
    /\ procs[i].kind = "Gen"
    /\ IF procs[i].rng = <<>>
       THEN /\ procs' = [procs EXCEPT ![i] = Exit(@)]
            /\ UNCHANGED qList
       ELSE LET r == put(qList, "procq", Head(procs[i].rng)) IN
            /\ qList' = r.ql
            /\ procs' = [procs EXCEPT ![i] =
                            IF r.res = "ok" THEN [@ EXCEPT !.rng = Tail(@)]
                            ELSE Raised(@, r.res)]
    /\ UNCHANGED <<wList, maxProcId, ret, cpc, cv>>

\* faulty variant: no test of keepwork, the first QueueTimeout ends the loop
SaverGet_BreakOnEmpty(i) ==
    /\ Running(i)
    /\ procs[i].kind = "Saver"
    /\ procs[i].pc = "run"
    /\ LET r == get(qList, "saveq") IN
         /\ qList' = r.ql
         /\ procs' = [procs EXCEPT ![i] =
                         IF r.res = "ok"
                         THEN [@ EXCEPT !.saveset = Append(@, r.val), !.pc = "signals"]
                         ELSE IF r.res = "QueueTimeout"
                         THEN [@ EXCEPT !.pc = "output"]
                         ELSE Raised(@, r.res)]
    /\ UNCHANGED <<wList, maxProcId, ret, cpc, cv>>

\* Saver.run: v = self.whirl.get("saveq"); append, or on QueueTimeout test keepwork
SaverGet(i) ==
    /\ Running(i)
    /\ procs[i].kind = "Saver"
    /\ procs[i].pc = "run"
    /\ LET r == get(qList, "saveq") IN
         /\ qList' = r.ql
         /\ procs' = [procs EXCEPT ![i] =
                         IF r.res = "ok"
                         THEN [@ EXCEPT !.saveset = Append(@, r.val), !.pc = "signals"]
                         ELSE IF r.res = "QueueTimeout"
                         THEN IF ~procs[i].keepwork
                              THEN [@ EXCEPT !.pc = "output"]
                              ELSE [@ EXCEPT !.pc = "signals"]
                         ELSE Raised(@, r.res)]
    /\ UNCHANGED <<wList, maxProcId, ret, cpc, cv>>

\* Saver.run: self.processSignals()
SaverSignals(i) ==
    /\ Running(i)
    /\ procs[i].kind = "Saver"
    /\ procs[i].pc = "signals"
    /\ procs' = [procs EXCEPT ![i] = [SaverProcessSignals(@) EXCEPT !.pc = "run"]]
    /\ UNCHANGED <<qList, wList, maxProcId, ret, cpc, cv>>

\* Saver.run: self.qOutput.put(self.saveset); then run() returns
SaverOutput(i) ==
    /\ Running(i)
    /\ procs[i].kind = "Saver"
    /\ procs[i].pc = "output"
    /\ procs' = [procs EXCEPT ![i] =
                    [@ EXCEPT !.qOutput = Append(@, procs[i].saveset), !.pc = "return"]]
    /\ UNCHANGED <<qList, wList, maxProcId, ret, cpc, cv>>

SaverReturn(i) ==
    /\ Running(i)
    /\ procs[i].kind = "Saver"
    /\ procs[i].pc = "return"
    /\ procs' = [procs EXCEPT ![i] = Exit(@)]
    /\ UNCHANGED <<qList, wList, maxProcId, ret, cpc, cv>>

-----------------------------------------------------------------------------
(* MicroWhirl: the controller's methods *)

\* the predicates the callers pass: lambda p,t,idd: idd == procId, t == tag, True,
\* and one that reads the process object
ById(procId) == [by |-> "id", id |-> procId, tag |-> ""]
ByTag(tag) == [by |-> "tag", id |-> 0, tag |-> tag]
All == [by |-> "all", id |-> 0, tag |-> ""]
HasInput == [by |-> "input", id |-> 0, tag |-> ""]

predicate(sel, p, t, idd) ==
    CASE sel.by = "id" -> idd = sel.id
      [] sel.by = "tag" -> t = sel.tag
      [] sel.by = "all" -> TRUE
      [] sel.by = "input" -> p.needInput

Selected(wl, ps, sel, k) == predicate(sel, ps[wl[k].p], wl[k].t, wl[k].idd)

\* faulty variant: maxProcId is not incremented
addWorker_NoIncrement(wl, mx, tag) ==
    [wList |-> Append(wl, [p |-> Len(wl) + 1, t |-> tag, idd |-> mx]),
     maxProcId |-> mx,
     val |-> mx]

\* addWorker: the record appended, the id returned
addWorker(wl, mx, tag) ==
    [wList |-> Append(wl, [p |-> Len(wl) + 1, t |-> tag, idd |-> mx + 1]),
     maxProcId |-> mx + 1,
     val |-> mx + 1]

\* startWorkersByPredicate: p.start() on each selected process, in list order;
\* Process.start() raises on a process that was started before
RECURSIVE startWorkersFrom(_, _, _, _)
startWorkersFrom(wl, ps, sel, k) ==
    IF k > Len(wl)
    THEN [procs |-> ps, res |-> "ok"]
    ELSE IF Selected(wl, ps, sel, k)
    THEN IF ps[wl[k].p].status = "initial"
         THEN startWorkersFrom(wl, [ps EXCEPT ![wl[k].p].status = "started"], sel, k + 1)
         ELSE [procs |-> ps, res |-> "AssertionError"]
    ELSE startWorkersFrom(wl, ps, sel, k + 1)

\* faulty variant: the predicate is not consulted, every process is started
startWorkersByPredicate_Everyone(wl, ps, sel) == startWorkersFrom(wl, ps, All, 1)

startWorkersByPredicate(wl, ps, sel) == startWorkersFrom(wl, ps, sel, 1)

\* closeWorkersByPredicate: p.qInput.put(SOFTCLOSE, False, 0) where p.qInput != None;
\* qInput is Queue(): no maxsize, so Full is never raised
RECURSIVE closeWorkersFrom(_, _, _, _)
closeWorkersFrom(wl, ps, sel, k) ==
    IF k > Len(wl)
    THEN ps
    ELSE IF Selected(wl, ps, sel, k) /\ ps[wl[k].p].needInput
    THEN closeWorkersFrom(wl, [ps EXCEPT ![wl[k].p].qInput = Append(@, SOFTCLOSE)],
                          sel, k + 1)
    ELSE closeWorkersFrom(wl, ps, sel, k + 1)

\* faulty variant: the predicate is not consulted, every signal queue gets the sentinel
closeWorkersByPredicate_Everyone(wl, ps, sel) == closeWorkersFrom(wl, ps, All, 1)

closeWorkersByPredicate(wl, ps, sel) == closeWorkersFrom(wl, ps, sel, 1)

\* checkAliveByPredicate: alive = alive or p.is_alive() over the selected processes
RECURSIVE checkAliveFrom(_, _, _, _, _)
checkAliveFrom(wl, ps, sel, k, alive) ==
    IF k > Len(wl)
    THEN alive
    ELSE IF Selected(wl, ps, sel, k)
    THEN checkAliveFrom(wl, ps, sel, k + 1, alive \/ is_alive(ps[wl[k].p]))
    ELSE checkAliveFrom(wl, ps, sel, k + 1, alive)

\* faulty variant: alive = p.is_alive(), the last selected process decides
RECURSIVE checkAliveLast(_, _, _, _, _)
checkAliveLast(wl, ps, sel, k, alive) ==
    IF k > Len(wl)
    THEN alive
    ELSE IF Selected(wl, ps, sel, k)
    THEN checkAliveLast(wl, ps, sel, k + 1, is_alive(ps[wl[k].p]))
    ELSE checkAliveLast(wl, ps, sel, k + 1, alive)

checkAliveByPredicate_Last(wl, ps, sel) == checkAliveLast(wl, ps, sel, 1, FALSE)

\* faulty variant: alive = alive and p.is_alive(), which stays False
RECURSIVE checkAliveAnd(_, _, _, _, _)
checkAliveAnd(wl, ps, sel, k, alive) ==
    IF k > Len(wl)
    THEN alive
    ELSE IF Selected(wl, ps, sel, k)
    THEN checkAliveAnd(wl, ps, sel, k + 1, alive /\ is_alive(ps[wl[k].p]))
    ELSE checkAliveAnd(wl, ps, sel, k + 1, alive)

checkAliveByPredicate_And(wl, ps, sel) == checkAliveAnd(wl, ps, sel, 1, FALSE)

checkAliveByPredicate(wl, ps, sel) == checkAliveFrom(wl, ps, sel, 1, FALSE)

-----------------------------------------------------------------------------
(* The controller's calls, any of them at any time (cpc = "api") *)

\* what a call gave back: res is "ok" or the exception raised; the value returned
\* is in val (a queue item), num (a number) or alive (a boolean)
Returned(res, val) == [res |-> res, val |-> val, num |-> 0, alive |-> FALSE]

ReturnedNum(n) == [res |-> "ok", val |-> "None", num |-> n, alive |-> FALSE]

ReturnedBool(b) == [res |-> "ok", val |-> "None", num |-> 0, alive |-> b]

\* model bound: a signal queue takes no more than MaxSignals messages
SignalRoom(wl, ps, sel) ==
    \A k \in 1..Len(wl) :
        (Selected(wl, ps, sel, k) /\ ps[wl[k].p].needInput)
            => Len(ps[wl[k].p].qInput) < MaxSignals

AddQueue(qname, qsize) ==
    /\ cpc = "api"
    /\ qList' = addQueue(qList, qname, qsize)
    /\ ret' = Returned("ok", "None")
    /\ UNCHANGED <<wList, maxProcId, procs, cpc, cv>>

CloseQueue(qname) ==
    /\ cpc = "api"
    /\ qList' = closeQueue(qList, qname)
    /\ ret' = Returned("ok", "None")
    /\ UNCHANGED <<wList, maxProcId, procs, cpc, cv>>

CloseAllQueues ==
    /\ cpc = "api"
    /\ qList' = closeAllQueues(qList)
    /\ ret' = Returned("ok", "None")
    /\ UNCHANGED <<wList, maxProcId, procs, cpc, cv>>

QueueSize(qname) ==
    /\ cpc = "api"
    /\ ret' = ReturnedNum(queueSize(qList, qname))
    /\ UNCHANGED <<qList, wList, maxProcId, procs, cpc, cv>>

Put(qname, obj) ==
    /\ cpc = "api"
    /\ Room(qList, qname)
    /\ LET r == put(qList, qname, obj) IN
         /\ qList' = r.ql
         /\ ret' = Returned(r.res, "None")
    /\ UNCHANGED <<wList, maxProcId, procs, cpc, cv>>

Get(qname) ==
    /\ cpc = "api"
    /\ LET r == get(qList, qname) IN
         /\ qList' = r.ql
         /\ ret' = Returned(r.res, r.val)
    /\ UNCHANGED <<wList, maxProcId, procs, cpc, cv>>

AddWorker(worker_obj, tag) ==
    /\ cpc = "api"
    /\ Len(wList) < MaxWorkers
    /\ LET r == addWorker(wList, maxProcId, tag) IN
         /\ wList' = r.wList
         /\ maxProcId' = r.maxProcId
         /\ procs' = Append(procs, worker_obj)
         /\ ret' = ReturnedNum(r.val)
    /\ UNCHANGED <<qList, cpc, cv>>

StartWorkersByPredicate(sel) ==
    /\ cpc = "api"
    /\ LET r == startWorkersByPredicate(wList, procs, sel) IN
         /\ procs' = r.procs
         /\ ret' = Returned(r.res, "None")
    /\ UNCHANGED <<qList, wList, maxProcId, cpc, cv>>

StartWorkerById(procId) == StartWorkersByPredicate(ById(procId))

StartWorkersByTag(tag) == StartWorkersByPredicate(ByTag(tag))

StartAllWorkers == StartWorkersByPredicate(All)

CloseWorkersByPredicate(sel) ==
    /\ cpc = "api"
    /\ SignalRoom(wList, procs, sel)
    /\ procs' = closeWorkersByPredicate(wList, procs, sel)
    /\ ret' = Returned("ok", "None")
    /\ UNCHANGED <<qList, wList, maxProcId, cpc, cv>>

CloseWorkerById(procId) == CloseWorkersByPredicate(ById(procId))

CloseWorkersByTag(tag) == CloseWorkersByPredicate(ByTag(tag))

CloseAllWorkers == CloseWorkersByPredicate(All)

CheckAliveByPredicate(sel) ==
    /\ cpc = "api"
    /\ ret' = ReturnedBool(checkAliveByPredicate(wList, procs, sel))
    /\ UNCHANGED <<qList, wList, maxProcId, procs, cpc, cv>>

CheckAliveById(procId) == CheckAliveByPredicate(ById(procId))

CheckAliveByTag(tag) == CheckAliveByPredicate(ByTag(tag))

CheckAllAlive == CheckAliveByPredicate(All)

\* the process objects the callers of Spec register
WorkerObjects == {WhirlProcess(FALSE, TRUE), SimpleWorkerProcess("test_worker1")}

Ids == 1..MaxWorkers

Init ==
    /\ qList = <<>>
    /\ wList = <<>>
    /\ maxProcId = 0
    /\ procs = <<>>
    /\ ret = Returned("ok", "None")
    /\ cpc = "api"
    /\ cv = <<>>

\* Spec: the controller's worker calls and the workers, over one named queue
Next ==
    \/ \E qsize \in 0..MaxSize : AddQueue("testq", qsize)
    \/ \E qname \in QNames : QueueSize(qname)
    \/ \E qname \in QNames : Put(qname, "test_value")
    \/ \E qname \in QNames : Get(qname)
    \/ \E worker_obj \in WorkerObjects, tag \in Tags : AddWorker(worker_obj, tag)
    \/ StartWorkersByPredicate(HasInput)
    \/ \E procId \in Ids : StartWorkerById(procId)
    \/ \E tag \in Tags : StartWorkersByTag(tag)
    \/ StartAllWorkers
    \/ CloseWorkersByPredicate(HasInput)
    \/ \E procId \in Ids : CloseWorkerById(procId)
    \/ \E tag \in Tags : CloseWorkersByTag(tag)
    \/ CloseAllWorkers
    \/ CheckAliveByPredicate(HasInput)
    \/ \E procId \in Ids : CheckAliveById(procId)
    \/ \E tag \in Tags : CheckAliveByTag(tag)
    \/ CheckAllAlive
    \/ \E i \in Ids : WhirlRun(i)
    \/ \E i \in Ids : SimpleRun(i)
    \/ \E i \in Ids : TestWorker1(i)

Spec == Init /\ [][Next]_vars

\* SpecQueues: the controller's queue calls on open queues, no worker registered
NextQueues ==
    \/ \E qname \in QNames, qsize \in 0..MaxSize : AddQueue(qname, qsize)
    \/ \E qname \in QNames : QueueSize(qname)
    \/ \E qname \in QNames, obj \in Values : Put(qname, obj)
    \/ \E qname \in QNames : Get(qname)

SpecQueues == Init /\ [][NextQueues]_vars

\* SpecClose: the controller's queue calls, closeQueue and closeAllQueues among them
NextClose ==
    \/ NextQueues
    \/ \E qname \in QNames : CloseQueue(qname)
    \/ CloseAllQueues

SpecClose == Init /\ [][NextClose]_vars

-----------------------------------------------------------------------------
(* One caller putting values on "testq" and taking them off again; cv.sent are *)
(* the values its puts were accepted with, cv.got the values its gets returned *)

MaxPuts == 3    \* puts the caller of SpecFifo has accepted

InitFifo ==
    /\ qList = <<>>
    /\ wList = <<>>
    /\ maxProcId = 0
    /\ procs = <<>>
    /\ ret = Returned("ok", "None")
    /\ cpc = "fifo"
    /\ cv = [sent |-> <<>>, got |-> <<>>]

\* w.addQueue("testq", qsize)
FifoAddQueue(qsize) ==
    /\ cpc = "fifo"
    /\ qList' = addQueue(qList, "testq", qsize)
    /\ ret' = Returned("ok", "None")
    /\ UNCHANGED <<wList, maxProcId, procs, cpc, cv>>

\* w.put("testq", obj)
FifoPut(obj) ==
    /\ cpc = "fifo"
    /\ Len(cv.sent) < MaxPuts
    /\ LET r == put(qList, "testq", obj) IN
         /\ qList' = r.ql
         /\ ret' = Returned(r.res, "None")
         /\ cv' = IF r.res = "ok" THEN [cv EXCEPT !.sent = Append(@, obj)] ELSE cv
    /\ UNCHANGED <<wList, maxProcId, procs, cpc>>

\* v = w.get("testq")
FifoGet ==
    /\ cpc = "fifo"
    /\ LET r == get(qList, "testq") IN
         /\ qList' = r.ql
         /\ ret' = Returned(r.res, r.val)
         /\ cv' = IF r.res = "ok" THEN [cv EXCEPT !.got = Append(@, r.val)] ELSE cv
    /\ UNCHANGED <<wList, maxProcId, procs, cpc>>

NextFifo ==
    \/ \E qsize \in 0..MaxSize : FifoAddQueue(qsize)
    \/ \E obj \in Values : FifoPut(obj)
    \/ FifoGet

SpecFifo == InitFifo /\ [][NextFifo]_vars

-----------------------------------------------------------------------------
(* TestWhirl.testPQComplex: two Gen, two SimpleWorkerProcess(complex_worker),  *)
(* one Saver, and the controller's script                                      *)

GenLen == 3             \* Gen([1,2,3]), Gen([4,5,6])
PQComplexCount == 5     \* the processes the test registers
FairGenLen == 1         \* longest Gen range explored under fairness

\* after w = MicroWhirl(2); cv.n: the length of the Gen ranges, cv.v: the result read
InitPipelineOf(lens) ==
    /\ qList = <<>>
    /\ wList = <<>>
    /\ maxProcId = 0
    /\ procs = <<>>
    /\ ret = Returned("ok", "None")
    /\ cpc = "addQueue"
    /\ cv \in {[n |-> n, v |-> <<>>] : n \in lens}

InitPipeline == InitPipelineOf({GenLen})

\* w.addQueue("procq"); w.addQueue("saveq")
PQComplexAddQueues ==
    /\ cpc = "addQueue"
    /\ qList' = addQueue(addQueue(qList, "procq", 0), "saveq", 0)
    /\ cpc' = "addWorker"
    /\ UNCHANGED <<wList, maxProcId, procs, ret, cv>>

\* the five process objects, in the order the test registers them;
\* n: the length of each Gen's range ([1,2,3] and [4,5,6] in the test)
PQComplexWorkers(n) ==
    << <<Gen([k \in 1..n |-> k]), "gen">>, <<Gen([k \in 1..n |-> n + k]), "gen">>,
       <<SimpleWorkerProcess("complex_worker"), "proc">>,
       <<SimpleWorkerProcess("complex_worker"), "proc">>,
       <<Saver, "save">> >>

\* w.addWorker(...), five times
PQComplexAddWorker ==
    /\ cpc = "addWorker"
    /\ LET next == PQComplexWorkers(cv.n)[Len(wList) + 1]
           r == addWorker(wList, maxProcId, next[2]) IN
         /\ wList' = r.wList
         /\ maxProcId' = r.maxProcId
         /\ procs' = Append(procs, next[1])
         /\ cpc' = IF Len(wList') = PQComplexCount THEN "closeGen" ELSE "addWorker"
    /\ UNCHANGED <<qList, ret, cv>>

\* w.closeWorkers('gen')
PQComplexCloseGen ==
    /\ cpc = "closeGen"
    /\ procs' = closeWorkersByPredicate(wList, procs, ByTag("gen"))
    /\ cpc' = "start"
    /\ UNCHANGED <<qList, wList, maxProcId, ret, cv>>

\* w.startAllWorkers()
PQComplexStart ==
    /\ cpc = "start"
    /\ procs' = startWorkersByPredicate(wList, procs, All).procs
    /\ cpc' = "waitGen"
    /\ UNCHANGED <<qList, wList, maxProcId, ret, cv>>

\* while w.checkAlive("gen"): pass
PQComplexWaitGen ==
    /\ cpc = "waitGen"
    /\ cpc' = IF checkAliveByPredicate(wList, procs, ByTag("gen"))
              THEN "waitGen" ELSE "waitProcq"
    /\ UNCHANGED <<qList, wList, maxProcId, procs, ret, cv>>

\* while w.queueSize("procq")>0: pass
PQComplexWaitProcq ==
    /\ cpc = "waitProcq"
    /\ cpc' = IF queueSize(qList, "procq") > 0 THEN "waitProcq" ELSE "closeProc"
    /\ UNCHANGED <<qList, wList, maxProcId, procs, ret, cv>>

\* w.closeWorkers("proc")
PQComplexCloseProc ==
    /\ cpc = "closeProc"
    /\ procs' = closeWorkersByPredicate(wList, procs, ByTag("proc"))
    /\ cpc' = "waitProc"
    /\ UNCHANGED <<qList, wList, maxProcId, ret, cv>>

\* while w.checkAlive("proc"): pass
PQComplexWaitProc ==
    /\ cpc = "waitProc"
    /\ cpc' = IF checkAliveByPredicate(wList, procs, ByTag("proc"))
              THEN "waitProc" ELSE "waitSaveq"
    /\ UNCHANGED <<qList, wList, maxProcId, procs, ret, cv>>

\* while w.queueSize("saveq")>0: pass
PQComplexWaitSaveq ==
    /\ cpc = "waitSaveq"
    /\ cpc' = IF queueSize(qList, "saveq") > 0 THEN "waitSaveq" ELSE "closeSave"
    /\ UNCHANGED <<qList, wList, maxProcId, procs, ret, cv>>

\* w.closeWorkers("save")
PQComplexCloseSave ==
    /\ cpc = "closeSave"
    /\ procs' = closeWorkersByPredicate(wList, procs, ByTag("save"))
    /\ cpc' = "result"
    /\ UNCHANGED <<qList, wList, maxProcId, ret, cv>>

\* v = svr.qOutput.get(True): blocks until the Saver has put its saveset
PQComplexResult ==
    /\ cpc = "result"
    /\ procs[PQComplexCount].qOutput # <<>>
    /\ cv' = [cv EXCEPT !.v = Head(procs[PQComplexCount].qOutput)]
    /\ procs' = [procs EXCEPT ![PQComplexCount].qOutput = Tail(@)]
    /\ cpc' = "closeAll"
    /\ UNCHANGED <<qList, wList, maxProcId, ret>>

\* w.closeAllWorkers(); w.closeAllQueues()
PQComplexCloseAll ==
    /\ cpc = "closeAll"
    /\ procs' = closeWorkersByPredicate(wList, procs, All)
    /\ qList' = closeAllQueues(qList)
    /\ cpc' = "done"
    /\ UNCHANGED <<wList, maxProcId, ret, cv>>

PQComplexController ==
    \/ PQComplexAddQueues
    \/ PQComplexAddWorker
    \/ PQComplexCloseGen
    \/ PQComplexStart
    \/ PQComplexWaitGen
    \/ PQComplexWaitProcq
    \/ PQComplexCloseProc
    \/ PQComplexWaitProc
    \/ PQComplexWaitSaveq
    \/ PQComplexCloseSave
    \/ PQComplexResult
    \/ PQComplexCloseAll

PQComplexIds == 1..PQComplexCount

GenProcess(i) == GenRun(i)

SimpleProcess(i) == SimpleRun(i) \/ ComplexWorkerGet(i) \/ ComplexWorkerPut(i)

SaverProcess(i) == SaverGet(i) \/ SaverSignals(i) \/ SaverOutput(i) \/ SaverReturn(i)

NextPipeline ==
    \/ PQComplexController
    \/ \E i \in PQComplexIds : GenProcess(i)
    \/ \E i \in PQComplexIds : SimpleProcess(i)
    \/ \E i \in PQComplexIds : SaverProcess(i)

SpecPipeline == InitPipeline /\ [][NextPipeline]_vars

\* every process and the controller runs on its own: none is held back forever
SpecPipelineFair ==
    /\ InitPipelineOf(1..FairGenLen)
    /\ [][NextPipeline]_vars
    /\ WF_vars(PQComplexController)
    /\ \A i \in PQComplexIds : WF_vars(GenProcess(i))
    /\ \A i \in PQComplexIds : WF_vars(SimpleProcess(i))
    /\ \A i \in PQComplexIds : WF_vars(SaverProcess(i))

-----------------------------------------------------------------------------
(* TestWhirl.testPQ2: ProcGen units tagged 'simple' and the controller's script *)

MaxGens == 2    \* ProcGen units the script registers

\* after w = MicroWhirl(2); the script registers cv.gens generators
InitDrain ==
    /\ qList = <<>>
    /\ wList = <<>>
    /\ maxProcId = 0
    /\ procs = <<>>
    /\ ret = Returned("ok", "None")
    /\ cpc = "addQueue"
    /\ cv \in {[gens |-> g, n |-> 0] : g \in 1..MaxGens}

\* w.addQueue("testq")
PQ2AddQueue ==
    /\ cpc = "addQueue"
    /\ qList' = addQueue(qList, "testq", 0)
    /\ ret' = Returned("ok", "None")
    /\ cpc' = "addWorker"
    /\ UNCHANGED <<wList, maxProcId, procs, cv>>

\* w.addWorker(ProcGen(), 'simple')
PQ2AddWorker ==
    /\ cpc = "addWorker"
    /\ LET r == addWorker(wList, maxProcId, "simple") IN
         /\ wList' = r.wList
         /\ maxProcId' = r.maxProcId
         /\ procs' = Append(procs, ProcGen)
         /\ ret' = ReturnedNum(r.val)
         /\ cpc' = IF Len(wList') = cv.gens THEN "closeAllWorkers" ELSE "addWorker"
    /\ UNCHANGED <<qList, cv>>

\* w.closeAllWorkers()
PQ2CloseAllWorkers ==
    /\ cpc = "closeAllWorkers"
    /\ procs' = closeWorkersByPredicate(wList, procs, All)
    /\ ret' = Returned("ok", "None")
    /\ cpc' = "start"
    /\ UNCHANGED <<qList, wList, maxProcId, cv>>

\* w.startAllWorkers()
PQ2Start ==
    /\ cpc = "start"
    /\ LET r == startWorkersByPredicate(wList, procs, All) IN
         /\ procs' = r.procs
         /\ ret' = Returned(r.res, "None")
    /\ cpc' = "wait"
    /\ UNCHANGED <<qList, wList, maxProcId, cv>>

\* while w.checkAlive("simple"): pass
PQ2Wait ==
    /\ cpc = "wait"
    /\ LET alive == checkAliveByPredicate(wList, procs, ByTag("simple")) IN
         /\ ret' = ReturnedBool(alive)
         /\ cpc' = IF alive THEN "wait" ELSE "drain"
    /\ UNCHANGED <<qList, wList, maxProcId, procs, cv>>

\* while True: v = w.get("testq"); n += 1, until QueueTimeout
PQ2Drain ==
    /\ cpc = "drain"
    /\ LET r == get(qList, "testq") IN
         /\ qList' = r.ql
         /\ ret' = Returned(r.res, r.val)
         /\ cv' = IF r.res = "ok" THEN [cv EXCEPT !.n = @ + 1] ELSE cv
         /\ cpc' = IF r.res = "ok" THEN "drain"
                   ELSE IF r.res = "QueueTimeout" THEN "closeAllQueues"
                   ELSE "raised"
    /\ UNCHANGED <<wList, maxProcId, procs>>

\* w.closeAllQueues()
PQ2CloseAllQueues ==
    /\ cpc = "closeAllQueues"
    /\ qList' = closeAllQueues(qList)
    /\ cpc' = "done"
    /\ UNCHANGED <<wList, maxProcId, procs, ret, cv>>

PQ2Controller ==
    \/ PQ2AddQueue
    \/ PQ2AddWorker
    \/ PQ2CloseAllWorkers
    \/ PQ2Start
    \/ PQ2Wait
    \/ PQ2Drain
    \/ PQ2CloseAllQueues

NextDrain ==
    \/ PQ2Controller
    \/ \E i \in 1..MaxGens : ProcGenRun(i)

SpecDrain ==
    /\ InitDrain
    /\ [][NextDrain]_vars
    /\ WF_vars(PQ2Controller)
    /\ \A i \in 1..MaxGens : WF_vars(ProcGenRun(i))

-----------------------------------------------------------------------------
(* SimpleWorkerProcess units whose signal queues receive the sentinel from the *)
(* controller and other messages from the parent process                       *)

Signals == {"other"}

\* worker_obj.qInput.put(msg) by the parent: qInput is the queue "to communicate
\* with parent process"
SendSignal(i, msg) ==
    /\ cpc = "api"
    /\ i \in 1..Len(procs)
    /\ procs[i].needInput
    /\ Len(procs[i].qInput) < MaxSignals
    /\ procs' = [procs EXCEPT ![i].qInput = Append(@, msg)]
    /\ ret' = Returned("ok", "None")
    /\ UNCHANGED <<qList, wList, maxProcId, cpc, cv>>

NextSignals ==
    \/ AddQueue("testq", 0)
    \/ Get("testq")
    \/ AddWorker(SimpleWorkerProcess("test_worker1"), "simple")
    \/ \E procId \in Ids : StartWorkerById(procId)
    \/ StartAllWorkers
    \/ \E procId \in Ids : CloseWorkerById(procId)
    \/ CheckAllAlive
    \/ \E i \in Ids, msg \in Signals : SendSignal(i, msg)
    \/ \E i \in Ids : SimpleRun(i)
    \/ \E i \in Ids : TestWorker1(i)

SpecSignals == Init /\ [][NextSignals]_vars

-----------------------------------------------------------------------------
(* TestWhirl.testPQ1: SimpleWorkerProcess(test_worker1) units tagged 'simple', *)
(* soft-closed before they are started, and the controller's script            *)

\* the forms of the soft-close call that select every unit of the script:
\* closeAllWorkers(), closeWorkersByTag('simple'), closeWorkersByPredicate(...)
PQ1Selectors == {All, ByTag("simple"), HasInput}

\* after w = MicroWhirl(2); the script registers cv.units units and soft-closes
\* them with cv.sel, cv.v: the value got
InitPQ1 ==
    /\ qList = <<>>
    /\ wList = <<>>
    /\ maxProcId = 0
    /\ procs = <<>>
    /\ ret = Returned("ok", "None")
    /\ cpc = "addQueue"
    /\ cv \in {[units |-> u, sel |-> sel, v |-> "None"] :
                    u \in 1..MaxItems, sel \in PQ1Selectors}

\* w.addQueue("testq")
PQ1AddQueue ==
    /\ cpc = "addQueue"
    /\ qList' = addQueue(qList, "testq", 0)
    /\ ret' = Returned("ok", "None")
    /\ cpc' = "addWorker"
    /\ UNCHANGED <<wList, maxProcId, procs, cv>>

\* w.addWorker(SimpleWorkerProcess(test_worker1), 'simple')
PQ1AddWorker ==
    /\ cpc = "addWorker"
    /\ LET r == addWorker(wList, maxProcId, "simple") IN
         /\ wList' = r.wList
         /\ maxProcId' = r.maxProcId
         /\ procs' = Append(procs, SimpleWorkerProcess("test_worker1"))
         /\ ret' = ReturnedNum(r.val)
         /\ cpc' = IF Len(wList') = cv.units THEN "closeAllWorkers" ELSE "addWorker"
    /\ UNCHANGED <<qList, cv>>

\* w.closeAllWorkers(), or another form of the call
PQ1CloseAllWorkers ==
    /\ cpc = "closeAllWorkers"
    /\ procs' = closeWorkersByPredicate(wList, procs, cv.sel)
    /\ ret' = Returned("ok", "None")
    /\ cpc' = "start"
    /\ UNCHANGED <<qList, wList, maxProcId, cv>>

\* w.startAllWorkers()
PQ1Start ==
    /\ cpc = "start"
    /\ LET r == startWorkersByPredicate(wList, procs, All) IN
         /\ procs' = r.procs
         /\ ret' = Returned(r.res, "None")
    /\ cpc' = "wait"
    /\ UNCHANGED <<qList, wList, maxProcId, cv>>

\* while w.checkAlive("simple"): pass
PQ1Wait ==
    /\ cpc = "wait"
    /\ LET alive == checkAliveByPredicate(wList, procs, ByTag("simple")) IN
         /\ ret' = ReturnedBool(alive)
         /\ cpc' = IF alive THEN "wait" ELSE "get"
    /\ UNCHANGED <<qList, wList, maxProcId, procs, cv>>

\* v = w.get("testq"); QueueTimeout: self.fail("worker finish, but queue is empty")
PQ1Get ==
    /\ cpc = "get"
    /\ LET r == get(qList, "testq") IN
         /\ qList' = r.ql
         /\ ret' = Returned(r.res, r.val)
         /\ cv' = IF r.res = "ok" THEN [cv EXCEPT !.v = r.val] ELSE cv
         /\ cpc' = IF r.res = "ok" THEN "closeAllQueues" ELSE "fail"
    /\ UNCHANGED <<wList, maxProcId, procs>>

\* w.closeAllQueues(); self.assertEqual(v, "test_value")
PQ1CloseAllQueues ==
    /\ cpc = "closeAllQueues"
    /\ qList' = closeAllQueues(qList)
    /\ cpc' = IF cv.v = "test_value" THEN "done" ELSE "fail"
    /\ UNCHANGED <<wList, maxProcId, procs, ret, cv>>

PQ1Controller ==
    \/ PQ1AddQueue
    \/ PQ1AddWorker
    \/ PQ1CloseAllWorkers
    \/ PQ1Start
    \/ PQ1Wait
    \/ PQ1Get
    \/ PQ1CloseAllQueues

PQ1Process(i) == SimpleRun(i) \/ TestWorker1(i)

NextPQ1 ==
    \/ PQ1Controller
    \/ \E i \in 1..MaxItems : PQ1Process(i)

SpecPQ1 ==
    /\ InitPQ1
    /\ [][NextPQ1]_vars
    /\ WF_vars(PQ1Controller)
    /\ \A i \in 1..MaxItems : WF_vars(PQ1Process(i))

-----------------------------------------------------------------------------
(* A caller that puts on a full queue and gets from an empty one while a      *)
(* SimpleWorkerProcess(complex_worker) takes from "procq" and puts on "saveq"; *)
(* cv.clock counts the seconds, cv.putAt and cv.getAt are when the calls were  *)
(* issued, cv.putRes and cv.getRes what they raised                            *)

qTimeout == 2   \* w = MicroWhirl(2) #timeout 2 sec
MaxClock == 3   \* seconds explored by SpecWait

\* after w = MicroWhirl(2)
InitWait ==
    /\ qList = <<>>
    /\ wList = <<>>
    /\ maxProcId = 0
    /\ procs = <<>>
    /\ ret = Returned("ok", "None")
    /\ cpc = "addQueue"
    /\ cv = [clock |-> 0, putAt |-> 0, putRes |-> "None",
             getAt |-> 0, getRes |-> "None", v |-> 0]

\* w.addQueue("procq", 1); w.addQueue("saveq")
WaitAddQueues ==
    /\ cpc = "addQueue"
    /\ qList' = addQueue(addQueue(qList, "procq", 1), "saveq", 0)
    /\ cpc' = "addWorker"
    /\ UNCHANGED <<wList, maxProcId, procs, ret, cv>>

\* w.addWorker(SimpleWorkerProcess(complex_worker), 'proc')
WaitAddWorker ==
    /\ cpc = "addWorker"
    /\ LET r == addWorker(wList, maxProcId, "proc") IN
         /\ wList' = r.wList
         /\ maxProcId' = r.maxProcId
         /\ procs' = Append(procs, SimpleWorkerProcess("complex_worker"))
    /\ cpc' = "fill"
    /\ UNCHANGED <<qList, ret, cv>>

\* w.put("procq", 2): the queue of capacity 1 is full from here
WaitFill ==
    /\ cpc = "fill"
    /\ qList' = put(qList, "procq", 2).ql
    /\ cpc' = "start"
    /\ UNCHANGED <<wList, maxProcId, procs, ret, cv>>

\* w.startAllWorkers()
WaitStart ==
    /\ cpc = "start"
    /\ procs' = startWorkersByPredicate(wList, procs, All).procs
    /\ cpc' = "put"
    /\ UNCHANGED <<qList, wList, maxProcId, ret, cv>>

\* w.put("procq", 3): self.qList[qname].put(obj, False, self.qTimeout) returns or
\* raises at once, block being False
WaitPut ==
    /\ cpc = "put"
    /\ LET r == put(qList, "procq", 3) IN
         /\ qList' = r.ql
         /\ cv' = [cv EXCEPT !.putAt = cv.clock, !.putRes = r.res]
    /\ cpc' = "get"
    /\ UNCHANGED <<wList, maxProcId, procs, ret>>

\* v = w.get("saveq"): self.qList[qname].get(False, self.qTimeout) returns or
\* raises at once, block being False
WaitGet ==
    /\ cpc = "get"
    /\ LET r == get(qList, "saveq") IN
         /\ qList' = r.ql
         /\ cv' = [cv EXCEPT !.getAt = cv.clock, !.getRes = r.res,
                              !.v = IF r.res = "ok" THEN r.val ELSE @]
    /\ cpc' = "close"
    /\ UNCHANGED <<wList, maxProcId, procs, ret>>

\* w.closeAllWorkers()
WaitClose ==
    /\ cpc = "close"
    /\ procs' = closeWorkersByPredicate(wList, procs, All)
    /\ cpc' = "done"
    /\ UNCHANGED <<qList, wList, maxProcId, ret, cv>>

\* a second passes
WaitTick ==
    /\ cv.clock < MaxClock
    /\ cv' = [cv EXCEPT !.clock = @ + 1]
    /\ UNCHANGED <<qList, wList, maxProcId, procs, ret, cpc>>

WaitController ==
    \/ WaitAddQueues
    \/ WaitAddWorker
    \/ WaitFill
    \/ WaitStart
    \/ WaitPut
    \/ WaitGet
    \/ WaitClose

NextWait ==
    \/ WaitController
    \/ WaitTick
    \/ SimpleProcess(1)

SpecWait == InitWait /\ [][NextWait]_vars

-----------------------------------------------------------------------------
(* The claims *)

SeqToSet(seq) == {seq[k] : k \in 1..Len(seq)}

\* C1: in the testPQComplex pipeline, under every interleaving, the collection
\* the controller reads from the Saver's result queue holds each of the squares
\* 1, 4, 9, 16, 25, 36 exactly once.
C1_PipelineResult ==
    cpc \in {"closeAll", "done"} =>
        /\ Len(cv.v) = 6
        /\ SeqToSet(cv.v) = {1, 4, 9, 16, 25, 36}

\* the script has read a result whose order an interleaving of the workers made
C1_Witness == cpc = "done" /\ Len(cv.v) = 6 /\ cv.v[1] = 25

Stopped(i) == i \in 1..Len(procs) /\ procs[i].status = "stopped"

Signalled(i) == Running(i) /\ SOFTCLOSE \in SeqToSet(procs[i].qInput)

\* C2: once the soft-close sentinel is in the signal queue of a started
\* SimpleWorkerProcess, the unit's next signal poll sets its soft-close flag, the
\* unit leaves its loop and terminates, it stays terminated, and from then on the
\* liveness check selecting only that unit returns false.
C2_SoftCloseLiveness ==
    /\ \A i \in PQComplexIds :
          (Signalled(i) /\ procs[i].kind = "SimpleWorkerProcess") ~> Stopped(i)
    /\ [][\A i \in PQComplexIds :
            (Signalled(i) /\ SimpleRun(i)) => procs'[i].softclose]_vars
    /\ [][\A i \in PQComplexIds : Stopped(i) => Stopped(i)']_vars
    /\ [](\A i \in PQComplexIds :
            Stopped(i) => ~checkAliveByPredicate(wList, procs, ById(wList[i].idd)))

\* a SimpleWorkerProcess that was soft-closed while running has terminated
C2_Witness ==
    /\ Len(procs) = 5
    /\ Stopped(3)
    /\ procs[3].softclose
    /\ procs[3].qInput = <<>>
    /\ Running(4)

\* the predicates the calls of Spec pass
Selectors == {HasInput, All} \cup {ById(i) : i \in Ids} \cup {ByTag(t) : t \in Tags}

\* the places in wList that a predicate selects
Matching(sel) == {k \in 1..Len(wList) : Selected(wList, procs, sel, k)}

\* C3: checkAliveByPredicate, and its by-id, by-tag and all forms, returns true
\* if and only if at least one registered unit matching the selection is running
\* (started and not yet terminated).
C3_CheckAliveIffRunning ==
    [][\A sel \in Selectors :
          CheckAliveByPredicate(sel) =>
              /\ ret'.res = "ok"
              /\ ret'.alive = (\E k \in Matching(sel) :
                                procs[wList[k].p].status = "started")]_vars

\* a liveness check has returned true and one has returned false while a
\* registered unit runs, another has terminated
C3_Witness ==
    /\ ret.alive
    /\ \E i, j \in 1..Len(procs) :
          procs[i].status = "started" /\ procs[j].status = "stopped"

\* C4 as claimed: whenever the liveness check returns false, every matching unit
\* has been started and has finished running, also when matching units were
\* registered and not yet started.
C4_FalseOnlyWhenTerminated ==
    [][\A sel \in Selectors :
          (CheckAliveByPredicate(sel) /\ ~ret'.alive) =>
              \A k \in Matching(sel) : procs[wList[k].p].status = "stopped"]_vars

\* C5: the ProcGen units, which put ProcGenCount items each into the unbounded
\* queue "testq" and return, terminate, so the script's liveness poll for their
\* tag comes to return false; the drain that follows obtains exactly the items
\* put (ProcGenCount for each unit) and its next get raises QueueTimeout.
C5_LivenessDrain ==
    /\ (cpc = "wait") ~> (cpc = "drain")
    /\ <>(cpc = "done")
    /\ [](cpc = "drain" =>
            ~checkAliveByPredicate(wList, procs, ByTag("simple")))
    /\ [](cpc \in {"closeAllQueues", "done"} =>
            /\ cv.n = cv.gens * ProcGenCount
            /\ ret = Returned("QueueTimeout", "None")
            /\ queueSize(qList, "testq") = 0)

\* one ProcGen was registered and the script has drained its five items
C5_Witness == cpc = "done" /\ cv.gens = 1 /\ cv.n = 5

\* the process objects that places of wList selected by sel refer to
MatchingProcs(sel) == {wList[k].p : k \in Matching(sel)}

\* C6: one closeWorkersByPredicate call (by id, by tag and all likewise) adds at
\* most one soft-close sentinel to the signal queue of each matching unit that
\* has one, nothing to any other signal queue, skips matching units without a
\* signal queue, raises nothing, and changes no named queue, no worker record
\* and nothing else of any process.
C6_CloseWorkersFrame ==
    [][\A sel \in Selectors :
          CloseWorkersByPredicate(sel) =>
              /\ ret'.res = "ok"
              /\ UNCHANGED <<qList, wList, maxProcId>>
              /\ Len(procs') = Len(procs)
              /\ \A i \in 1..Len(procs) :
                    /\ [procs'[i] EXCEPT !.qInput = procs[i].qInput] = procs[i]
                    /\ IF i \in MatchingProcs(sel) /\ procs[i].needInput
                       THEN procs'[i].qInput \in
                               {procs[i].qInput, Append(procs[i].qInput, SOFTCLOSE)}
                       ELSE procs'[i].qInput = procs[i].qInput]_vars

\* of two units sharing a tag, one holds one sentinel and the other, a unit with
\* no signal queue, holds none
C6_Witness ==
    \E i, j \in 1..Len(procs) :
        /\ wList[i].t = wList[j].t
        /\ procs[i].qInput = <<SOFTCLOSE>>
        /\ ~procs[j].needInput
        /\ procs[j].qInput = <<>>

\* C7: the k-th addWorker call returns id k and appends (unit, tag, k); ids
\* start at 1, strictly increase and are never shared; the records stay in
\* registration order; the id does not depend on the tag.
C7_WorkerIds ==
    /\ [](/\ maxProcId = Len(wList)
          /\ \A k \in 1..Len(wList) : wList[k].idd = k
          /\ \A j, k \in 1..Len(wList) : j # k => wList[j].idd # wList[k].idd)
    /\ [][\A worker_obj \in WorkerObjects, tag \in Tags :
            AddWorker(worker_obj, tag) =>
                /\ ret'.num = Len(wList) + 1
                /\ wList' = Append(wList, [p |-> Len(procs) + 1, t |-> tag,
                                           idd |-> Len(wList) + 1])]_vars
    /\ [][/\ Len(wList') >= Len(wList)
          /\ SubSeq(wList', 1, Len(wList)) = wList]_vars

\* two records share a tag and have the ids 1 and 2
C7_Witness ==
    /\ Len(wList) = 2
    /\ wList[1].t = wList[2].t
    /\ wList[1].idd = 1
    /\ wList[2].idd = 2
    /\ ret.num = 2

QueueIsFull(qname) ==
    /\ qname \in DOMAIN qList
    /\ qList[qname].maxsize > 0
    /\ Len(qList[qname].items) = qList[qname].maxsize

\* C8: a queue created with capacity N > 0 never holds more than N items; a put
\* on it while it holds fewer succeeds, a put while it holds N items fails with
\* QueueTimeout (in a worker: the exception ends the process) and leaves the
\* queue's contents unchanged.
C8_Capacity ==
    /\ [](\A qname \in DOMAIN qList :
            qList[qname].maxsize > 0 =>
                Len(qList[qname].items) <= qList[qname].maxsize)
    /\ [][\A qname \in QNames :
            (Put(qname, "test_value") /\ QueueIsFull(qname)) =>
                /\ ret'.res = "QueueTimeout"
                /\ qList' = qList]_vars
    /\ [][\A qname \in DOMAIN qList :
            (/\ Put(qname, "test_value")
             /\ qList[qname].maxsize > 0
             /\ ~QueueIsFull(qname)) =>
                /\ ret'.res = "ok"
                /\ qList'[qname].items = Append(qList[qname].items, "test_value")]_vars
    /\ [][\A i \in Ids :
            (TestWorker1(i) /\ QueueIsFull("testq")) =>
                /\ procs'[i].exc = "QueueTimeout"
                /\ qList' = qList]_vars

\* "testq" has capacity 1 and is full; the controller's put and a worker's put
\* on it have failed with QueueTimeout
C8_Witness ==
    /\ QueueIsFull("testq")
    /\ ret = Returned("QueueTimeout", "None")
    /\ \E i \in 1..Len(procs) : procs[i].exc = "QueueTimeout"

\* C9: put and get on a name that addQueue never registered fail with
\* QueueNotExists, in the controller and in a worker (whose process the exception
\* ends), and leave the registry, every queue and every worker record unchanged.
C9_QueueNotExists ==
    /\ [][\A qname \in QNames \ DOMAIN qList :
            (Put(qname, "test_value") \/ Get(qname)) =>
                /\ ret' = Returned("QueueNotExists", "None")
                /\ UNCHANGED <<qList, wList, maxProcId, procs>>]_vars
    /\ [][\A i \in Ids :
            (TestWorker1(i) /\ "testq" \notin DOMAIN qList) =>
                /\ procs'[i].exc = "QueueNotExists"
                /\ UNCHANGED <<qList, wList, maxProcId>>
                /\ \A j \in 1..Len(procs) : j # i => procs'[j] = procs[j]]_vars
    /\ [](\A qname \in QNames \ DOMAIN qList :
            /\ put(qList, qname, "test_value").res = "QueueNotExists"
            /\ get(qList, qname).res = "QueueNotExists")

\* the controller's last call and a worker's put have failed with QueueNotExists,
\* and the queue registered since holds an item
C9_Witness ==
    /\ ret = Returned("QueueNotExists", "None")
    /\ \E i \in 1..Len(procs) : procs[i].exc = "QueueNotExists"
    /\ "testq" \in DOMAIN qList
    /\ qList["testq"].items # <<>>

\* C10: get on a registered queue that holds no item fails with QueueTimeout,
\* returns no value and leaves the queue empty; a get that returns a value
\* returns the item at the head of that queue and removes it, and the items of a
\* queue are only ever the values put on that queue.
C10_EmptyRead ==
    /\ [][\A qname \in DOMAIN qList :
            (Get(qname) /\ qList[qname].items = <<>>) =>
                /\ ret' = Returned("QueueTimeout", "None")
                /\ qList' = qList]_vars
    /\ [][\A qname \in QNames :
            (Get(qname) /\ ret'.res = "ok") =>
                /\ qname \in DOMAIN qList
                /\ qList[qname].items # <<>>
                /\ ret'.val = Head(qList[qname].items)
                /\ qList'[qname].items = Tail(qList[qname].items)]_vars
    /\ [][\A qname \in DOMAIN qList :
            qList'[qname].items # qList[qname].items =>
                \/ Get(qname) /\ qList'[qname].items = Tail(qList[qname].items)
                \/ \E obj \in Values :
                      /\ Put(qname, obj)
                      /\ qList'[qname].items = Append(qList[qname].items, obj)]_vars

\* both queues are unbounded, "q2" holds an item, "testq" is empty and the last
\* call, a get on it, raised QueueTimeout
C10_Witness ==
    /\ DOMAIN qList = QNames
    /\ \A qname \in QNames : qList[qname].maxsize = 0
    /\ qList["testq"].items = <<>>
    /\ qList["q2"].items # <<>>
    /\ ret = Returned("QueueTimeout", "None")

IsPrefix(s, t) == Len(s) <= Len(t) /\ SubSeq(t, 1, Len(s)) = s

C12_RegistrationIdempotent ==
    /\ [][\A qname \in QNames, qsize \in 0..MaxSize :
            (AddQueue(qname, qsize) /\ qname \in DOMAIN qList) =>
                /\ qList' = qList
                /\ ret'.res = "ok"]_vars
    /\ [][\A qname \in QNames :
            (CloseQueue(qname) /\ qname \notin DOMAIN qList) =>
                /\ qList' = qList
                /\ ret'.res = "ok"]_vars
    /\ [](\A qname \in DOMAIN qList, qsize \in 0..MaxSize :
            addQueue(qList, qname, qsize) = qList)
    /\ [](\A qname \in QNames \ DOMAIN qList : closeQueue(qList, qname) = qList)

\* "testq" is registered with capacity 1 and holds an item, so that an addQueue
\* of it with another capacity would show; "q2" is not registered
C12_Witness ==
    /\ DOMAIN qList = {"testq"}
    /\ qList["testq"].maxsize = 1
    /\ qList["testq"].items = <<"test">>
    /\ addQueue(qList, "testq", 0) = qList
    /\ closeQueue(qList, "q2") = qList

\* C13 as claimed: a queue that closeQueue or closeAllQueues has closed holds no
\* pending items.
C13_ClosingDrains ==
    \A qname \in DOMAIN qList :
        qList[qname].closed => queueSize(qList, qname) = 0

\* C20: a closed queue keeps its name.  No call removes a name from qList;
\* closeQueue and closeAllQueues leave the closed queues registered; a closed
\* queue stays closed, addQueue on its name changes nothing and opens no new
\* queue; put and get on the name do not raise QueueNotExists.
C20_ClosedKeepsName ==
    /\ [][DOMAIN qList \subseteq DOMAIN qList']_vars
    /\ [][\A qname \in DOMAIN qList :
            CloseQueue(qname) =>
                /\ DOMAIN qList' = DOMAIN qList
                /\ qList'[qname].closed]_vars
    /\ [][CloseAllQueues =>
            /\ DOMAIN qList' = DOMAIN qList
            /\ \A qname \in DOMAIN qList : qList'[qname].closed]_vars
    /\ [][\A qname \in DOMAIN qList :
            qList[qname].closed => qname \in DOMAIN qList' /\ qList'[qname].closed]_vars
    /\ [][\A qname \in DOMAIN qList, qsize \in 0..MaxSize :
            (qList[qname].closed /\ AddQueue(qname, qsize)) => qList' = qList]_vars
    /\ [][\A qname \in DOMAIN qList, obj \in Values :
            (qList[qname].closed /\ (Put(qname, obj) \/ Get(qname))) =>
                ret'.res # "QueueNotExists"]_vars

\* both names are registered, "testq" was closed by closeQueue with an item
\* pending, "q2" is open, and the last call, on the closed queue, raised
C20_Witness ==
    /\ DOMAIN qList = QNames
    /\ qList["testq"].closed
    /\ qList["testq"].items # <<>>
    /\ ~qList["q2"].closed
    /\ ret = Returned("ValueError", "None")

\* C14 as claimed: put and get wait up to the registry timeout, so a call raises
\* QueueTimeout only when the queue stayed full (put) or empty (get) for the whole
\* window: within qTimeout seconds of the issue of a put that raised QueueTimeout
\* the queue is full, and within qTimeout seconds of the issue of a get that
\* raised QueueTimeout the queue is empty.
C14_WaitUpToTimeout ==
    /\ (cv.putRes = "QueueTimeout" /\ cv.clock < cv.putAt + qTimeout) =>
            QFull(qList["procq"])
    /\ (cv.getRes = "QueueTimeout" /\ cv.clock < cv.getAt + qTimeout) =>
            qList["saveq"].items = <<>>

\* C15: the soft-close flag of a unit is false until the unit is started and when
\* it starts; it changes only in the unit's own step that polls its signal queue,
\* only when the message taken is the soft-close sentinel, and only to true; a
\* poll that takes another message leaves it false; once true it stays true; no
\* call of the controller changes it.
C15_SoftCloseFlag ==
    /\ [](\A i \in 1..Len(procs) : procs[i].status = "initial" => ~procs[i].softclose)
    /\ [][\A i \in 1..Len(procs) :
            procs'[i].softclose # procs[i].softclose =>
                /\ SimpleRun(i)
                /\ procs[i].qInput # <<>>
                /\ Head(procs[i].qInput) = SOFTCLOSE
                /\ procs'[i].softclose]_vars
    /\ [][\A i \in 1..Len(procs) :
            (/\ SimpleRun(i)
             /\ ~procs[i].softclose
             /\ procs[i].qInput # <<>>
             /\ Head(procs[i].qInput) # SOFTCLOSE) =>
                /\ procs'[i].qInput = Tail(procs[i].qInput)
                /\ ~procs'[i].softclose]_vars
    /\ [][\A i \in 1..Len(procs) : procs[i].softclose => procs'[i].softclose]_vars

\* one unit took the sentinel, set its flag and returned; another one runs with
\* its flag false and a message that is not the sentinel in its signal queue
C15_Witness ==
    \E i, j \in 1..Len(procs) :
        /\ Stopped(i)
        /\ procs[i].softclose
        /\ procs[i].exc = "None"
        /\ Running(j)
        /\ ~procs[j].softclose
        /\ procs[j].qInput = <<"other">>

\* C16: a soft-close sent to a registered SimpleWorkerProcess before it is started
\* is not lost and the worker function still runs: once started the unit calls
\* its function at least once (test_worker1 puts a value on "testq") and then
\* terminates, so the script's liveness poll comes to return false, and from then
\* on "testq" holds a value for each unit: the get returns "test_value", it does
\* not raise QueueTimeout.
C16_SoftCloseBeforeStart ==
    /\ (cpc = "wait") ~> (cpc = "get")
    /\ <>(cpc = "done")
    /\ [](cpc # "fail")
    /\ [](cpc = "get" =>
            /\ \A i \in 1..Len(procs) :
                  /\ Stopped(i)
                  /\ procs[i].softclose
                  /\ procs[i].exc = "None"
            /\ queueSize(qList, "testq") >= cv.units)
    /\ [](cpc \in {"closeAllQueues", "done"} => ret = Returned("ok", "test_value"))

\* two units were soft-closed before their start; both have run and returned,
\* and the script has got a value
C16_Witness ==
    /\ cpc = "done"
    /\ cv.units = 2
    /\ cv.v = "test_value"
    /\ \A i \in 1..2 : Stopped(i) /\ procs[i].qInput = <<>>

\* the Saver of the pipeline is registered (it is the last of the five units)
SaverRegistered == Len(procs) = PQComplexCount

\* the saveset lists the Saver has put on its result queue so far: the ones in
\* the queue and the one the controller has read
SaverOutputs ==
    Len(procs[PQComplexCount].qOutput)
        + (IF cpc \in {"closeAll", "done"} THEN 1 ELSE 0)

\* C17: the Saver puts its saveset on its result queue exactly once per run (never
\* twice, and once before it terminates); it does so only after it has received
\* the soft-close sentinel, and goes there only from a get on "saveq" that found
\* it empty; the saveset it puts holds the values it took from "saveq", each
\* appended once when taken, in the order taken.
C17_CollectorResult ==
    /\ [](SaverRegistered =>
            /\ SaverOutputs <= 1
            /\ Stopped(PQComplexCount) =>
                  (procs[PQComplexCount].exc = "None" /\ SaverOutputs = 1)
            /\ procs[PQComplexCount].pc \in {"output", "return", "done"} =>
                  ~procs[PQComplexCount].keepwork)
    /\ [][SaverOutput(PQComplexCount) =>
            /\ ~procs[PQComplexCount].keepwork
            /\ procs[PQComplexCount].qOutput = <<>>
            /\ procs'[PQComplexCount].qOutput = <<procs[PQComplexCount].saveset>>]_vars
    /\ [][(/\ SaverRegistered
           /\ procs[PQComplexCount].pc # "output"
           /\ procs'[PQComplexCount].pc = "output") =>
              /\ SaverGet(PQComplexCount)
              /\ qList["saveq"].items = <<>>
              /\ ~procs[PQComplexCount].keepwork]_vars
    /\ [][(SaverGet(PQComplexCount) /\ qList["saveq"].items # <<>>) =>
            /\ procs'[PQComplexCount].saveset =
                   Append(procs[PQComplexCount].saveset, Head(qList["saveq"].items))
            /\ qList'["saveq"].items = Tail(qList["saveq"].items)]_vars
    /\ [][(/\ SaverRegistered
           /\ procs'[PQComplexCount].saveset # procs[PQComplexCount].saveset) =>
              /\ SaverGet(PQComplexCount)
              /\ qList["saveq"].items # <<>>]_vars

\* the Saver has put its six values, taken in an order other than the order of
\* the generators' ranges, on its result queue and has terminated; the
\* controller has not read them yet
C17_Witness ==
    /\ SaverRegistered
    /\ Stopped(PQComplexCount)
    /\ Len(procs[PQComplexCount].saveset) = 6
    /\ procs[PQComplexCount].saveset[1] = 16
    /\ procs[PQComplexCount].qOutput = <<procs[PQComplexCount].saveset>>
    /\ cpc = "result"

\* C18: when no registered unit has been started, startWorkersByPredicate (and
\* its forms by id, by tag and all) starts every unit that the selection matches
\* and no other, raises nothing, and leaves the worker records, the named queues
\* and everything else of the process objects as they were.
C18_StartSelection ==
    [][\A sel \in Selectors :
          (/\ StartWorkersByPredicate(sel)
           /\ \A i \in 1..Len(procs) : procs[i].status = "initial") =>
              /\ ret'.res = "ok"
              /\ UNCHANGED <<qList, wList, maxProcId>>
              /\ Len(procs') = Len(procs)
              /\ \A i \in 1..Len(procs) :
                    procs'[i] = IF i \in MatchingProcs(sel)
                                THEN [procs[i] EXCEPT !.status = "started"]
                                ELSE procs[i]]_vars

\* of two units with different tags one has been started and has not taken a
\* step yet, the other is not started
C18_Witness ==
    /\ Len(wList) = 2
    /\ wList[1].t # wList[2].t
    /\ procs[1].status = "initial"
    /\ procs[2] = [SimpleWorkerProcess("test_worker1") EXCEPT !.status = "started"]
    /\ ret = Returned("ok", "None")

\* C19: in the testPQComplex pipeline under fair scheduling, each polling loop of
\* the controller is left, the blocking read of the Saver's result queue returns,
\* the script runs to its end, and every unit terminates and stays terminated, so
\* that the liveness check over all units is false from some point on.
C19_PipelineTerminates ==
    /\ (cpc = "waitGen") ~> (cpc = "waitProcq")
    /\ (cpc = "waitProcq") ~> (cpc = "closeProc")
    /\ (cpc = "waitProc") ~> (cpc = "waitSaveq")
    /\ (cpc = "waitSaveq") ~> (cpc = "closeSave")
    /\ (cpc = "result") ~> (cpc = "closeAll")
    /\ <>(cpc = "done")
    /\ <>[](/\ Len(procs) = PQComplexCount
            /\ \A i \in PQComplexIds : Stopped(i)
            /\ ~checkAliveByPredicate(wList, procs, All))

\* the script is at its end, the queues are closed, and the five units have
\* returned from run() without an exception
C19_Witness ==
    /\ cpc = "done"
    /\ Len(procs) = PQComplexCount
    /\ \A i \in PQComplexIds : Stopped(i) /\ procs[i].exc = "None"
    /\ \A qname \in DOMAIN qList : qList[qname].closed

====
